---- MODULE Spec2Model ----
(***************************************************************************)
(* Model of package watcher (tpng/watcher): a process-local cache of       *)
(* compiled html/template bundles.  The model follows the revision of      *)
(* watcher.go that carries getBaseChangeTime and the Delim settings        *)
(* (src/unnamed/part_001).                                                 *)
(*                                                                         *)
(* Goroutines: the callers of the public API (Clients), the watcher loop,  *)
(* and one lookup goroutine per Get request.  A caller has at most one Get *)
(* outstanding, so the lookup goroutine serving the request of process     *)
(* <<c, d>> is named <<c, d + 1>>: depth 0 is the caller, depth 1 serves   *)
(* the caller's Get (or the Get(baseKey) nested in its parseFiles), depth  *)
(* 2 serves the Get(baseKey) nested in a depth 1 reparse.                  *)
(*                                                                         *)
(* Time is a natural number; 0 is Go's zero time.Time.  Several events may *)
(* share one clock value (the clock is "not accurate enough", as the       *)
(* source puts it).                                                        *)
(***************************************************************************)
EXTENDS Integers, Sequences, FiniteSets, TLC

\* ------------------------------------------------------------------ bounds
\* Calls of the public API (all callers together), the last clock value, the
\* file modifications, and the capacity of getChan and setChan (10 in the
\* source; scaled down so that senders do meet a full channel).
MaxOps == 3
MaxTime == 3
MaxEdits == 1
ChanCap == 2

\* ------------------------------------------------------------- the program
baseKey == 0
\* The keys callers register under, and the keys they look up (2 is never
\* registered).
RegKeys == {1}
GetKeys == {1, 2}
Clients == {1, 2}
Files == {"b", "f", "g"}
\* The file lists the callers register: for user keys, for the base.
UserLists == {<<"f">>, <<"f", "g">>}
BaseLists == {<<"b">>}
\* filepath.Glob on the fixed directory of the model.
Glob(pattern) ==
  CASE pattern = "f*" -> <<"f">>
    [] pattern = "b*" -> <<"b">>
    [] OTHER -> <<>>
\* The templates a file defines: one named after the file, and for b and f
\* a {{define "content"}} block.
Defines(f) == IF f = "g" THEN {"g"} ELSE {f, "content"}

Pids == Clients \X {0, 1, 2}
Requesters == Clients \X {0, 1}
Tasks == Clients \X {1, 2}
TaskOf(p) == <<p[1], p[2] + 1>>
RequesterOf(p) == <<p[1], p[2] - 1>>

VARIABLES
  now,       \* the clock time.Now() reads
  fs,        \* file -> [mtime, ver, ok]: modification time, content version, parses
  edits,     \* number of file modifications so far
  cache,     \* the map cache: a function from the registered keys to *watched
  setChan,   \* buffered channel of cacheSet
  getChan,   \* buffered channel of cacheGet
  chan,      \* requester -> its reply channel c: [buf, closed]
  proc,      \* process -> its position and locals
  ret,       \* client -> what its last call returned ("" while none)
  res,       \* client -> the template its last Get returned
  hist,      \* client -> the calls it has made, in order
  sent,      \* every <<key, template ref>> ever sent on setChan
  panicked   \* the process aborted on a run-time panic

vars == <<now, fs, edits, cache, setChan, getChan, chan, proc, ret, res, hist,
          sent, panicked>>

Last(s) == s[Len(s)]
NoTemplate == [ref |-> <<>>, body |-> {}]
NoEntry == [filenames |-> <<>>, template |-> NoTemplate, cached |-> 0]
OpenChan == [buf |-> <<>>, closed |-> FALSE]
NoProc(pc) ==
  [pc |-> pc, key |-> baseKey, files |-> <<>>, t |-> NoTemplate,
   w0 |-> NoEntry, w |-> NoEntry, changed |-> 0, prior |-> {},
   baseChanged |-> 0, missed |-> FALSE, both |-> FALSE, modified |-> FALSE,
   bmod |-> FALSE, bbody |-> {}, perr |-> FALSE, reparsed |-> FALSE,
   edited |-> 0, baseFiles |-> <<>>]

Init ==
  /\ now = 2
  /\ fs = [f \in Files |-> [mtime |-> 1, ver |-> 0, ok |-> TRUE]]
  /\ edits = 0
  /\ cache = [k \in {} |-> NoEntry]
  /\ setChan = <<>>
  /\ getChan = <<>>
  /\ chan = [p \in Requesters |-> OpenChan]
  /\ proc = [p \in Pids |-> NoProc(IF p[2] = 0 THEN "idle" ELSE "off")]
  /\ ret = [c \in Clients |-> ""]
  /\ res = [c \in Clients |-> NoTemplate]
  /\ hist = [c \in Clients |-> <<>>]
  /\ sent = {}
  /\ panicked = FALSE

\* ----------------------------------------------------- the template engine
\* html/template is an external collaborator; a bundle is a handle (ref, the
\* identity of the *template.Template) on a set of <<name, file, version>>.
RefN(p, n, site) == <<p[1], p[2], n, site>>
Ref(p, site) == RefN(p, Len(hist[p[1]]), site)
FileBody(f) == {<<n, f, fs[f].ver>> : n \in Defines(f)}
ParseOK(filenames) == \A i \in DOMAIN filenames : fs[filenames[i]].ok
ParseFiles(filenames, r) ==
  [ref |-> r, body |-> UNION {FileBody(filenames[i]) : i \in DOMAIN filenames}]
Names(t) == {x[1] : x \in t.body}
CloneUnshared(t, r) == t
Clone(t, r) == [ref |-> r, body |-> t.body]
\* nt := base.Clone(); for each sub of t: nt.AddParseTree(sub.Name(), sub.Tree)
mergeDropDependent(base, t, r) == Clone(base, r)
mergeTemplate(base, t, r) ==
  LET nt == Clone(base, r)
  IN  [nt EXCEPT !.body = {x \in nt.body : x[1] \notin Names(t)} \cup t.body]

\* ------------------------------------------------------- staleness checker
RECURSIVE changeTimeLoop(_, _, _)
changeTimeLoop(filenames, i, changed) ==
  IF i > Len(filenames) THEN changed
  ELSE changeTimeLoop(filenames, i + 1,
         IF fs[filenames[i]].mtime > changed THEN fs[filenames[i]].mtime
         ELSE changed)
getChangeTimeFirst(filenames) ==
  IF filenames = <<>> THEN 0 ELSE fs[filenames[1]].mtime
getChangeTime(filenames) == changeTimeLoop(filenames, 1, 0)
getBaseChangeTime ==
  IF baseKey \notin DOMAIN cache THEN 0
  ELSE LET base == cache[baseKey]
           changed == getChangeTime(base.filenames)
       IN  IF base.cached > changed THEN base.cached + 1 ELSE changed
\* w.cached.Before(changed) || (key != baseKey && w.cached.Before(baseChanged))
isStaleAnyKey(key, w, changed, baseChanged) ==
  w.cached < changed \/ w.cached < baseChanged
isStale(key, w, changed, baseChanged) ==
  w.cached < changed \/ (key # baseKey /\ w.cached < baseChanged)

\* parseGlob: the expansion, or an error when it is empty.
parseGlobUnchecked(pattern) == [err |-> FALSE, filenames |-> Glob(pattern)]
parseGlob(pattern) ==
  IF Len(Glob(pattern)) = 0 THEN [err |-> TRUE, filenames |-> <<>>]
  ELSE [err |-> FALSE, filenames |-> Glob(pattern)]

\* set: cache[key] = w
setMerging(c, key, w) ==
  [k \in DOMAIN c \cup {key} |->
     IF k # key THEN c[k]
     ELSE IF key \in DOMAIN c
          THEN [w EXCEPT !.template.body = @ \cup c[key].template.body]
          ELSE w]
setEveryKey(c, key, w) == [k \in DOMAIN c \cup GetKeys \cup {key} |-> w]
set(c, key, w) == [k \in DOMAIN c \cup {key} |-> IF k = key THEN w ELSE c[k]]

\* ------------------------------------------------------------ public API
TotalOps == Len(hist[1]) + Len(hist[2])
\* The callers are interchangeable: the one that calls first is named 1.
CanCall(c) ==
  /\ ~panicked
  /\ proc[<<c, 0>>].pc = "idle"
  /\ TotalOps < MaxOps
  /\ \A x \in Clients : x < c => hist[x] # <<>>
ChanReady(p) == chan[p].buf # <<>> \/ chan[p].closed
\* The template refs of the Set requests for key that wait in setChan.
PendingSets(key) ==
  {setChan[i].w.template.ref : i \in {j \in DOMAIN setChan : setChan[j].key = key}}
Called(c, call) ==
  /\ hist' = [hist EXCEPT ![c] = Append(@, call)]
  /\ res' = [res EXCEPT ![c] = NoTemplate]

\* parseFiles / parseBaseFiles up to the return of t.ParseFiles:
\* template.New(filenames[0]) panics on an empty list, ParseFiles fails on a
\* file the engine rejects.  next is where the caller goes on a success.
beginParse(c, kind, key, filenames, next) ==
  LET p == <<c, 0>> IN
  /\ Called(c, <<kind, key, filenames>>)
  /\ IF Len(filenames) = 0
     THEN /\ panicked' = TRUE
          /\ proc' = [proc EXCEPT ![p] = NoProc("panic")]
          /\ ret' = [ret EXCEPT ![c] = ""]
     ELSE IF ~ParseOK(filenames)
     THEN /\ ret' = [ret EXCEPT ![c] = "ParseError"]
          /\ UNCHANGED <<proc, panicked>>
     ELSE /\ proc' = [proc EXCEPT ![p] =
                 [NoProc(next) EXCEPT !.key = key,
                    !.files = filenames,
                    !.t = ParseFiles(filenames,
                                     RefN(p, Len(hist[c]) + 1, "parse"))]]
          /\ ret' = [ret EXCEPT ![c] = ""]
          /\ UNCHANGED panicked
  /\ UNCHANGED <<now, fs, edits, cache, setChan, getChan, chan, sent>>

\* How hist records a glob call: by what the pattern expands to.
GlobCall(pattern) == IF Glob(pattern) = <<>> THEN "Glob" ELSE "Register"
noMatch(c, key) ==
  /\ Called(c, <<"Glob", key, <<>>>>)
  /\ ret' = [ret EXCEPT ![c] = "NoMatch"]
  /\ UNCHANGED <<now, fs, edits, cache, setChan, getChan, chan, proc, sent,
                 panicked>>

RegisterFiles(c, key, filenames) ==
  /\ CanCall(c)
  /\ beginParse(c, "Register", key, filenames, "pf_get")

RegisterGlob(c, key, pattern) ==
  /\ CanCall(c)
  /\ LET g == parseGlob(pattern) IN
     IF g.err THEN noMatch(c, key)
     ELSE beginParse(c, GlobCall(pattern), key, g.filenames, "pf_get")

RegisterBaseFiles(c, filenames) ==
  /\ CanCall(c)
  /\ beginParse(c, "Register", baseKey, filenames, "stamp")

RegisterBaseGlob(c, pattern) ==
  /\ CanCall(c)
  /\ LET g == parseGlob(pattern) IN
     IF g.err THEN noMatch(c, baseKey)
     ELSE beginParse(c, GlobCall(pattern), baseKey, g.filenames, "stamp")

\* Get, up to its send on getChan.
Get(c, key) ==
  LET p == <<c, 0>> IN
  /\ CanCall(c)
  /\ Len(getChan) < ChanCap
  /\ Called(c, <<"Get", key, <<>>>>)
  /\ getChan' = Append(getChan,
                       [key |-> key, c |-> p, prior |-> PendingSets(key),
                        both |-> {baseKey, key} \subseteq DOMAIN cache])
  /\ chan' = [chan EXCEPT ![p] = OpenChan]
  /\ proc' = [proc EXCEPT ![p] =
                [NoProc("get_wait") EXCEPT !.key = key]]
  /\ ret' = [ret EXCEPT ![c] = ""]
  /\ UNCHANGED <<now, fs, edits, cache, setChan, sent, panicked>>

\* Get, from t, ok := <-c to its return.
GetReturn(c) ==
  LET p == <<c, 0>> IN
  /\ ~panicked
  /\ proc[p].pc = "get_wait"
  /\ ChanReady(p)
  /\ IF chan[p].buf # <<>>
     THEN /\ res' = [res EXCEPT ![c] = Clone(chan[p].buf[1], Ref(p, "get"))]
          /\ ret' = [ret EXCEPT ![c] = "ok"]
     ELSE /\ res' = [res EXCEPT ![c] = NoTemplate]
          /\ ret' = [ret EXCEPT ![c] = "NotFound"]
  /\ chan' = [chan EXCEPT ![p] = OpenChan]
  /\ proc' = [proc EXCEPT ![p] = NoProc("idle"), ![TaskOf(p)] = NoProc("off")]
  /\ UNCHANGED <<now, fs, edits, cache, setChan, getChan, hist, sent, panicked>>

\* The caller changes the template Get gave it; every holder of the same
\* *template.Template sees the change.
Mutation == <<"mut", "caller", 0>>
MutateRef(t, r) ==
  IF t.ref = r THEN [t EXCEPT !.body = @ \cup {Mutation}] ELSE t
Mutate(c) ==
  LET r == res[c].ref IN
  /\ ~panicked
  /\ proc[<<c, 0>>].pc = "idle"
  /\ res[c] # NoTemplate
  /\ Mutation \notin res[c].body
  /\ res' = [x \in Clients |-> MutateRef(res[x], r)]
  /\ cache' = [k \in DOMAIN cache |->
                 [cache[k] EXCEPT !.template = MutateRef(@, r)]]
  /\ setChan' = [i \in DOMAIN setChan |->
                   [setChan[i] EXCEPT !.w.template = MutateRef(@, r)]]
  /\ chan' = [q \in Requesters |->
                [chan[q] EXCEPT !.buf =
                   [j \in DOMAIN chan[q].buf |-> MutateRef(chan[q].buf[j], r)]]]
  /\ proc' = [q \in Pids |->
                [proc[q] EXCEPT !.t = MutateRef(@, r),
                                !.w0.template = MutateRef(@, r),
                                !.w.template = MutateRef(@, r)]]
  /\ UNCHANGED <<now, fs, edits, getChan, ret, hist, sent, panicked>>

\* ------------------------------------------- parseFiles after t.ParseFiles
\* Get(baseKey): the send on getChan.
PfSendGet(p) ==
  /\ ~panicked
  /\ proc[p].pc = "pf_get"
  /\ Len(getChan) < ChanCap
  /\ getChan' = Append(getChan, [key |-> baseKey, c |-> p,
                                 prior |-> PendingSets(baseKey),
                                 both |-> baseKey \in DOMAIN cache])
  /\ chan' = [chan EXCEPT ![p] = OpenChan]
  /\ proc' = [proc EXCEPT ![p].pc = "pf_wait"]
  /\ UNCHANGED <<now, fs, edits, cache, setChan, ret, res, hist, sent, panicked>>

\* Get(baseKey) returns; merge when it found a base; cached: time.Now().
PfRecv(p) ==
  LET t == IF chan[p].buf # <<>>
           THEN mergeTemplate(Clone(chan[p].buf[1], Ref(p, "get")),
                              proc[p].t, Ref(p, "merge"))
           ELSE proc[p].t
  IN
  /\ ~panicked
  /\ proc[p].pc = "pf_wait"
  /\ ChanReady(p)
  /\ proc' = [proc EXCEPT
       ![p] = [@ EXCEPT !.pc = "send_set", !.t = t,
                 !.w = [filenames |-> proc[p].files, template |-> t,
                        cached |-> now],
                 !.baseFiles = proc[TaskOf(p)].w0.filenames],
       ![TaskOf(p)] = NoProc("off")]
  /\ chan' = [chan EXCEPT ![p] = OpenChan]
  /\ UNCHANGED <<now, fs, edits, cache, setChan, getChan, ret, res, hist, sent,
                 panicked>>

\* parseBaseFiles after t.ParseFiles: cached: time.Now().
Stamp(p) ==
  /\ ~panicked
  /\ proc[p].pc = "stamp"
  /\ proc' = [proc EXCEPT ![p] =
       [@ EXCEPT !.pc = "send_set",
          !.w = [filenames |-> proc[p].files, template |-> proc[p].t,
                 cached |-> now]]]
  /\ UNCHANGED <<now, fs, edits, cache, setChan, getChan, chan, ret, res, hist,
                 sent, panicked>>

\* c <- w.template after a reparse: w is the entry just built, not a second
\* read of cache[key].
taskReplyFromCache(c, key, w) ==
  IF key \in DOMAIN c THEN c[key].template ELSE w.template
taskReply(c, key, w) == w.template
\* setChan <- &cacheSet{key, w}; a caller then returns nil, a lookup
\* goroutine sends w.template on c and closes it.
SendSet(p) ==
  /\ ~panicked
  /\ proc[p].pc = "send_set"
  /\ Len(setChan) < ChanCap
  /\ setChan' = Append(setChan, [key |-> proc[p].key, w |-> proc[p].w])
  /\ sent' = sent \cup {<<proc[p].key, proc[p].w.template.ref>>}
  /\ IF p[2] = 0
     THEN /\ proc' = [proc EXCEPT ![p] = NoProc("idle")]
          /\ ret' = [ret EXCEPT ![p[1]] = "ok"]
          /\ UNCHANGED chan
     ELSE /\ proc' = [proc EXCEPT ![p].pc = "done", ![p].reparsed = TRUE]
          /\ chan' = [chan EXCEPT ![RequesterOf(p)] =
                        [buf |-> <<taskReply(cache, proc[p].key, proc[p].w)>>,
                         closed |-> TRUE]]
          /\ UNCHANGED ret
  /\ UNCHANGED <<now, fs, edits, cache, getChan, res, hist, panicked>>

\* ------------------------------------------------------- lookup goroutine
Closed == [buf |-> <<>>, closed |-> TRUE]
\* get: the read of cache[key] and getChangeTime(w.filenames...).
TaskRead(p) ==
  LET key == proc[p].key
      miss == proc[p].prior \cap PendingSets(key) # {}
  IN
  /\ ~panicked
  /\ proc[p].pc = "start"
  /\ IF key \notin DOMAIN cache
     THEN /\ proc' = [proc EXCEPT ![p].pc = "done", ![p].missed = miss]
          /\ chan' = [chan EXCEPT ![RequesterOf(p)] = Closed]
     ELSE /\ proc' = [proc EXCEPT ![p] =
               [@ EXCEPT !.pc = "check", !.w0 = cache[key],
                  !.files = cache[key].filenames,
                  !.changed = getChangeTime(cache[key].filenames),
                  !.modified = \E i \in DOMAIN cache[key].filenames :
                     fs[cache[key].filenames[i]].mtime > cache[key].cached,
                  !.missed = miss, !.edited = edits]]
          /\ UNCHANGED chan
  /\ UNCHANGED <<now, fs, edits, cache, setChan, getChan, ret, res, hist, sent,
                 panicked>>

\* get: getBaseChangeTime(), the staleness test, and the reply of a fresh
\* entry's template.
TaskCheck(p) ==
  LET baseChanged == getBaseChangeTime
      \* For the claims: a file of the Base Entry is newer than the base
      \* entry and than the entry the goroutine read; the base files' content.
      bmod == /\ proc[p].key # baseKey
              /\ baseKey \in DOMAIN cache
              /\ \E i \in DOMAIN cache[baseKey].filenames :
                    LET m == fs[cache[baseKey].filenames[i]].mtime IN
                    m > cache[baseKey].cached /\ m > proc[p].w0.cached
      bbody == IF bmod THEN ParseFiles(cache[baseKey].filenames, <<>>).body
               ELSE {}
      seen == [proc[p] EXCEPT !.baseChanged = baseChanged, !.bmod = bmod,
                              !.bbody = bbody]
  IN
  /\ ~panicked
  /\ proc[p].pc = "check"
  /\ IF isStale(proc[p].key, proc[p].w0, proc[p].changed, baseChanged)
     THEN /\ proc' = [proc EXCEPT ![p] = [seen EXCEPT !.pc = "parse"]]
          /\ UNCHANGED chan
     ELSE /\ proc' = [proc EXCEPT ![p] = [seen EXCEPT !.pc = "done"]]
          /\ chan' = [chan EXCEPT ![RequesterOf(p)] =
                        [buf |-> <<proc[p].w0.template>>, closed |-> TRUE]]
  /\ UNCHANGED <<now, fs, edits, cache, setChan, getChan, ret, res, hist, sent,
                 panicked>>

\* What a lookup goroutine leaves on c when the reparse fails: log.Println(err);
\* return (the deferred close(c) runs).
parseFailReplyStale(w) == [buf |-> <<w.template>>, closed |-> TRUE]
parseFailReply(w) == Closed
\* get: t.ParseFiles of parseBaseFiles / parseFiles in the reparse.
TaskParse(p) ==
  /\ ~panicked
  /\ proc[p].pc = "parse"
  /\ IF ~ParseOK(proc[p].files)
     THEN /\ proc' = [proc EXCEPT ![p].pc = "done", ![p].perr = TRUE]
          /\ chan' = [chan EXCEPT ![RequesterOf(p)] = parseFailReply(proc[p].w0)]
     ELSE /\ proc' = [proc EXCEPT ![p] =
               [@ EXCEPT !.pc = IF proc[p].key = baseKey THEN "stamp"
                                ELSE "pf_get",
                  !.t = ParseFiles(proc[p].files, Ref(p, "parse"))]]
          /\ UNCHANGED chan
  /\ UNCHANGED <<now, fs, edits, cache, setChan, getChan, ret, res, hist, sent,
                 panicked>>

\* ------------------------------------------------------------ watcher loop
\* case g := <-getChan: go get(g.key, g.c)
RecvGetInline ==
  /\ ~panicked
  /\ getChan # <<>>
  /\ \A q \in Tasks : proc[q].pc \in {"off", "done"}
  /\ LET g == Head(getChan) IN
     proc' = [proc EXCEPT ![TaskOf(g.c)] =
                [NoProc("start") EXCEPT !.key = g.key, !.prior = g.prior,
                                        !.both = g.both]]
  /\ getChan' = Tail(getChan)
  /\ UNCHANGED <<now, fs, edits, cache, setChan, chan, ret, res, hist, sent,
                 panicked>>
RecvGet ==
  /\ ~panicked
  /\ getChan # <<>>
  /\ LET g == Head(getChan) IN
     proc' = [proc EXCEPT ![TaskOf(g.c)] =
                [NoProc("start") EXCEPT !.key = g.key, !.prior = g.prior,
                                        !.both = g.both]]
  /\ getChan' = Tail(getChan)
  /\ UNCHANGED <<now, fs, edits, cache, setChan, chan, ret, res, hist, sent,
                 panicked>>

\* case s := <-setChan: set(s.key, s.w)
RecvSetNewest ==
  /\ ~panicked
  /\ setChan # <<>>
  /\ cache' = set(cache, Last(setChan).key, Last(setChan).w)
  /\ setChan' = SubSeq(setChan, 1, Len(setChan) - 1)
  /\ UNCHANGED <<now, fs, edits, getChan, chan, proc, ret, res, hist, sent,
                 panicked>>
RecvSet ==
  /\ ~panicked
  /\ setChan # <<>>
  /\ cache' = set(cache, Head(setChan).key, Head(setChan).w)
  /\ setChan' = Tail(setChan)
  /\ UNCHANGED <<now, fs, edits, getChan, chan, proc, ret, res, hist, sent,
                 panicked>>

\* ------------------------------------------------------------ environment
\* The clock value of the first call is that of Init.
Tick ==
  /\ ~panicked
  /\ TotalOps > 0
  /\ now < MaxTime
  /\ now' = now + 1
  /\ UNCHANGED <<fs, edits, cache, setChan, getChan, chan, proc, ret, res, hist,
                 sent, panicked>>

\* A file is rewritten: new content, modification time now; ok says whether
\* the engine accepts the new content.  The files as they are before the
\* first call are those of Init.
Edit(f, ok) ==
  /\ ~panicked
  /\ TotalOps > 0
  /\ edits < MaxEdits
  /\ edits' = edits + 1
  /\ fs' = [fs EXCEPT ![f] = [mtime |-> now, ver |-> @.ver + 1, ok |-> ok]]
  /\ UNCHANGED <<now, cache, setChan, getChan, chan, proc, ret, res, hist, sent,
                 panicked>>

Next ==
  \/ \E c \in Clients, key \in RegKeys, fl \in UserLists \cup {<<>>} :
        RegisterFiles(c, key, fl)
  \/ \E c \in Clients, key \in RegKeys, pat \in {"f*", "none*"} :
        RegisterGlob(c, key, pat)
  \/ \E c \in Clients, fl \in BaseLists \cup {<<>>} : RegisterBaseFiles(c, fl)
  \/ \E c \in Clients, pat \in {"b*", "none*"} : RegisterBaseGlob(c, pat)
  \/ \E c \in Clients, key \in GetKeys : Get(c, key)
  \/ \E c \in Clients : GetReturn(c)
  \/ \E c \in Clients : Mutate(c)
  \/ \E p \in Requesters : PfSendGet(p)
  \/ \E p \in Requesters : PfRecv(p)
  \/ \E p \in Pids : Stamp(p)
  \/ \E p \in Pids : SendSet(p)
  \/ \E p \in Tasks : TaskRead(p)
  \/ \E p \in Tasks : TaskCheck(p)
  \/ \E p \in Tasks : TaskParse(p)
  \/ RecvGet
  \/ RecvSet
  \/ Tick
  \/ \E f \in Files, ok \in BOOLEAN : Edit(f, ok)

Spec == Init /\ [][Next]_vars

\* The steps of the goroutines the Go scheduler runs: the loop, the lookup
\* goroutines, and the callers inside a call.  A runnable goroutine is run
\* in the end; new calls, the clock and the files are the environment's.
Progress ==
  \/ \E c \in Clients : GetReturn(c)
  \/ \E p \in Requesters : PfSendGet(p)
  \/ \E p \in Requesters : PfRecv(p)
  \/ \E p \in Pids : Stamp(p)
  \/ \E p \in Pids : SendSet(p)
  \/ \E p \in Tasks : TaskRead(p)
  \/ \E p \in Tasks : TaskCheck(p)
  \/ \E p \in Tasks : TaskParse(p)
  \/ RecvGet
  \/ RecvSet
FairSpec == Spec /\ WF_vars(Progress)

\* ------------------------------------------------------------- the claims
\* The caller c is back from its latest call.
Returned(c) == proc[<<c, 0>>].pc = "idle" /\ hist[c] # <<>> /\ ret[c] # ""
DefinedBy(filenames) == UNION {Defines(filenames[i]) : i \in DOMAIN filenames}
FilesOf(filenames) == {filenames[i] : i \in DOMAIN filenames}
\* The template named after file f is of a later version in v than in w.
Newer(v, w, f) ==
  \E x \in v.body, y \in w.body :
    x[1] = f /\ x[2] = f /\ y[1] = f /\ y[2] = f /\ x[3] > y[3]
\* Every definition of body is in t, in that version or a later one.
Holds(t, body) ==
  \A x \in body : \E y \in t.body : y[1] = x[1] /\ y[2] = x[2] /\ y[3] >= x[3]
\* The op of caller c that template ref r was built in.
BuiltIn(r, c, n) == r[1] = c /\ r[3] = n
Quiet ==
  /\ setChan = <<>>
  /\ getChan = <<>>
  /\ \A p \in Pids : proc[p].pc \in {"idle", "off"}

\* C1: a lookup goroutine whose Get request was sent after a Set request for
\* the same key reads the cache with that Set applied: no Set request that
\* waited in setChan when the Get was sent still waits there at the read
\* (stated for the requests of one caller, no other caller being active).
C1_GetSeesEarlierSet ==
  \A p \in Tasks :
    (\A x \in Clients \ {p[1]} : hist[x] = <<>>) => ~proc[p].missed

\* C2: a caller that alone, on an unchanged filesystem, registers a base B
\* and a key D with files F, in either order, and then gets D, is returned
\* the merge of B's bundle with F's bundle.
C2_RegistrationOrderCommutes ==
  \A c \in Clients, B \in BaseLists, F \in UserLists, D \in RegKeys :
    ( /\ edits = 0
      /\ \A x \in Clients \ {c} : hist[x] = <<>>
      /\ Returned(c)
      /\ hist[c] \in
           { << <<"Register", baseKey, B>>, <<"Register", D, F>>,
                <<"Get", D, <<>>>> >>,
             << <<"Register", D, F>>, <<"Register", baseKey, B>>,
                <<"Get", D, <<>>>> >> } )
    => /\ ret[c] = "ok"
       /\ res[c].body \ {Mutation} =
            mergeTemplate(ParseFiles(B, <<>>), ParseFiles(F, <<>>), <<>>).body

\* C3: with the base and D both in the cache when Get(D) is called (one
\* caller having made every call, the filesystem unchanged), the bundle sent
\* back for D holds every template name of the base's files and of D's
\* files, and D's definition of each name D defines.
C3_MergedHoldsBaseAndDependent ==
  \A c \in Clients :
    LET p == <<c, 0>>
        q == <<c, 1>>
    IN  ( /\ edits = 0
          /\ \A x \in Clients \ {c} : hist[x] = <<>>
          /\ proc[p].pc = "get_wait"
          /\ proc[q].pc = "done"
          /\ proc[q].both
          /\ chan[p].buf # <<>> )
        => LET v == chan[p].buf[1]
               dn == DefinedBy(proc[q].files)
               bn == DefinedBy(cache[baseKey].filenames)
           IN  /\ bn \cup dn \subseteq Names(v)
               /\ \A x \in v.body :
                    x[1] \in dn => x[2] \in FilesOf(proc[q].files)

\* C4: a lookup goroutine that read an entry one of whose files had a
\* modification time later than the entry's cached time never sends the
\* entry's bundle: it sends a bundle parsed anew, with later content of a
\* file of the entry, or, when the files do not parse, nothing.
C4_ModifiedFileIsReparsed ==
  \A p \in Tasks :
    (proc[p].pc = "done" /\ proc[p].modified)
    => LET c == chan[RequesterOf(p)] IN
       \/ proc[p].perr /\ c = Closed
       \/ /\ ~proc[p].perr
          /\ c.buf # <<>>
          /\ c.buf[1].ref # proc[p].w0.template.ref
          /\ \E f \in FilesOf(proc[p].files) :
               Newer(c.buf[1], proc[p].w0.template, f)
C4_Witness ==
  \E p \in Tasks :
    /\ proc[p].pc = "done"
    /\ proc[p].modified
    /\ chan[RequesterOf(p)].buf # <<>>

\* C5: a lookup goroutine for a non-base key that found a file of the Base
\* Entry modified later than the cached times of both entries sends (unless
\* the key's own files fail to parse) a bundle that holds the base files'
\* definitions, in their content of that moment or later, for every name the
\* key's own files do not define.
C5_ModifiedBaseReachesDependents ==
  \A p \in Tasks :
    (proc[p].pc = "done" /\ proc[p].bmod /\ ~proc[p].perr)
    => LET c == chan[RequesterOf(p)] IN
       /\ c.buf # <<>>
       /\ Holds(c.buf[1],
                {x \in proc[p].bbody : x[1] \notin DefinedBy(proc[p].files)})

\* C6: no permanent staleness: when nothing is in flight, a cache entry that
\* every later lookup judges fresh (its cached time is later than the
\* modification time of each of its files, which all parse, and not before
\* the base change time) holds the current content of its files.
C6_NoPermanentStaleness ==
  Quiet =>
    \A k \in DOMAIN cache :
      ( /\ ParseOK(cache[k].filenames)
        /\ \A f \in FilesOf(cache[k].filenames) : fs[f].mtime < cache[k].cached
        /\ ~isStale(k, cache[k], getChangeTime(cache[k].filenames),
                    getBaseChangeTime) )
      => ParseFiles(cache[k].filenames, <<>>).body \subseteq
           cache[k].template.body

\* C7: copy isolation: the template Get returned to a caller is no object
\* the cache, a channel or another caller holds, and no caller's mutation
\* shows in a cached template or in a template on its way to a caller.
C7_CopyIsolation ==
  /\ \A c \in Clients :
       res[c] # NoTemplate =>
         /\ \A k \in DOMAIN cache : cache[k].template.ref # res[c].ref
         /\ \A i \in DOMAIN setChan : setChan[i].w.template.ref # res[c].ref
         /\ \A x \in Clients \ {c} : res[x].ref # res[c].ref
  /\ \A k \in DOMAIN cache : Mutation \notin cache[k].template.body
  /\ \A q \in Requesters :
       \A j \in DOMAIN chan[q].buf : Mutation \notin chan[q].buf[j].body
C7_Witness ==
  \E c \in Clients, x \in Clients :
    /\ c # x
    /\ Returned(c) /\ Returned(x)
    /\ Last(hist[c]) = Last(hist[x])
    /\ Mutation \in res[c].body
    /\ res[x] # NoTemplate
    /\ Mutation \notin res[x].body

\* C8: a Get of a key for which no Set request was ever sent returns the
\* not-found error.
C8_UnregisteredNotFound ==
  \A c \in Clients :
    ( /\ Returned(c)
      /\ Last(hist[c])[1] = "Get"
      /\ Last(hist[c])[2] \notin {x[1] : x \in sent} )
    => ret[c] = "NotFound"
C8_Witness ==
  \E c \in Clients :
    /\ Returned(c)
    /\ Last(hist[c]) = <<"Get", 2, <<>>>>
    /\ ret[c] = "NotFound"
    /\ DOMAIN cache = {baseKey, 1}

\* C9: a glob registration whose pattern matches no file returns the
\* no-match error at once and sends no Set request; no other call returns
\* that error.
C9_NoMatchSendsNothing ==
  \A c \in Clients :
    /\ (hist[c] # <<>> /\ Last(hist[c])[1] = "Glob")
       => /\ proc[<<c, 0>>].pc = "idle"
          /\ ret[c] = "NoMatch"
          /\ \A x \in sent : ~BuiltIn(x[2], c, Len(hist[c]))
    /\ ret[c] = "NoMatch" => Last(hist[c])[1] = "Glob"
C9_Witness ==
  \E c \in Clients :
    /\ hist[c] # <<>>
    /\ Last(hist[c]) = <<"Glob", 1, <<>>>>
    /\ ret[c] = "NoMatch"
    /\ 1 \in DOMAIN cache
    /\ hist[c][1] = <<"Register", 1, <<"f">>>>

\* C10: a lookup goroutine whose reparse of a stale entry fails closes the
\* reply channel without a bundle and sends no Set request.
C10_FailedReparseRepliesNothing ==
  \A p \in Tasks :
    proc[p].perr =>
      /\ proc[p].pc = "done"
      /\ chan[RequesterOf(p)] = Closed
      /\ ~proc[p].reparsed
      /\ \A x \in sent :
           ~(BuiltIn(x[2], p[1], Len(hist[p[1]])) /\ x[2][2] = p[2])
C10_Witness ==
  \E c \in Clients :
    /\ proc[<<c, 0>>].pc = "get_wait"
    /\ proc[<<c, 1>>].perr
    /\ proc[<<c, 1>>].key \in DOMAIN cache
    /\ cache[proc[<<c, 1>>].key] = proc[<<c, 1>>].w0

\* C11: Set requests are applied one at a time, in the order of their
\* submission: every change of the cache puts the entry of the oldest
\* waiting Set request under its key, leaves the other keys alone and takes
\* that request, and no other, off setChan; so of two requests for one key
\* the cache never holds the later one's entry while the earlier one waits.
C11_SetsApplyInOrder ==
  [][ /\ cache' # cache =>
           /\ setChan # <<>>
           /\ setChan' = Tail(setChan)
           /\ DOMAIN cache' = DOMAIN cache \cup {Head(setChan).key}
           /\ cache'[Head(setChan).key] = Head(setChan).w
           /\ \A k \in DOMAIN cache \ {Head(setChan).key} : cache'[k] = cache[k]
      /\ \A i \in DOMAIN setChan', j \in DOMAIN setChan' :
           (i < j /\ setChan'[i].key = setChan'[j].key
                  /\ setChan'[i].key \in DOMAIN cache')
           => cache'[setChan'[i].key].template.ref # setChan'[j].w.template.ref
    ]_vars
\* The cache holds the entry of one caller's registration of key 1 while two
\* later Set requests for key 1, of another caller, wait behind each other.
C11_Witness ==
  /\ 1 \in DOMAIN cache
  /\ Len(setChan) = 2
  /\ setChan[1].key = 1 /\ setChan[2].key = 1
  /\ setChan[1].w.template.ref # setChan[2].w.template.ref
  /\ cache[1].template.ref[1] # setChan[1].w.template.ref[1]

\* C12: the loop never waits on a lookup goroutine: while the process runs
\* and a lookup goroutine is in its reparse, a waiting Get request can be
\* taken off getChan and a waiting Set request applied, and every other
\* lookup goroutine can take its next step up to its reply.
C12_LoopNeverWaitsOnTask ==
  \A p \in Tasks :
    (~panicked /\ proc[p].pc \in {"parse", "pf_get", "pf_wait", "stamp", "send_set"})
    => /\ getChan # <<>> => ENABLED RecvGet
       /\ setChan # <<>> => ENABLED RecvSet
       /\ \A q \in Tasks \ {p} :
            /\ proc[q].pc = "start" => ENABLED TaskRead(q)
            /\ proc[q].pc = "check" => ENABLED TaskCheck(q)
\* The lookup goroutine of key 1 is blocked in its reparse while the lookup
\* of the base key it waits for is started, served and its reply sent.
C12_Witness ==
  \E c \in Clients :
    /\ proc[<<c, 1>>].pc = "pf_wait"
    /\ proc[<<c, 1>>].key = 1
    /\ proc[<<c, 2>>].pc = "done"
    /\ proc[<<c, 2>>].key = baseKey
    /\ chan[<<c, 1>>].buf # <<>>

\* C13: under fair scheduling every Get call returns: a caller waiting on
\* its reply channel is in the end back from the call.
C13_EveryGetReturns ==
  \A c \in Clients :
    (proc[<<c, 0>>].pc = "get_wait") ~> (proc[<<c, 0>>].pc = "idle")

\* C14: with a Base Entry in the cache getBaseChangeTime() is the later of
\* the latest modification time of the base files and base.cached + 1ns,
\* for every pair of the two, equal ones included; without one it is the
\* zero time.
Max2(a, b) == IF a > b THEN a ELSE b
C14_BaseChangeTimeIsMax ==
  IF baseKey \in DOMAIN cache
  THEN getBaseChangeTime =
         Max2(getChangeTime(cache[baseKey].filenames), cache[baseKey].cached + 1)
  ELSE getBaseChangeTime = 0

\* C15: a lookup goroutine of the base key that read a Base Entry none of
\* whose files is modified later than its cached time replies with the
\* entry's bundle, reparses nothing and sends no Set request.
C15_BaseLookupIgnoresBaseChange ==
  \A p \in Tasks :
    ( /\ proc[p].key = baseKey
      /\ proc[p].pc \notin {"off", "start"}
      /\ proc[p].w0 # NoEntry
      /\ ~proc[p].modified )
    => /\ proc[p].pc \in {"check", "done"}
       /\ ~proc[p].reparsed /\ ~proc[p].perr
       /\ proc[p].pc = "done" =>
            chan[RequesterOf(p)] =
              [buf |-> <<proc[p].w0.template>>, closed |-> TRUE]
       /\ \A x \in sent :
            ~(x[1] = baseKey /\ BuiltIn(x[2], p[1], Len(hist[p[1]]))
                            /\ x[2][2] = p[2])
\* Such a lookup has replied, of a Base Entry cached later than its files'
\* modification, so that the base change time is later than base.cached.
C15_Witness ==
  \E p \in Tasks :
    /\ proc[p].key = baseKey
    /\ proc[p].pc = "done"
    /\ proc[p].w0 # NoEntry
    /\ proc[p].w0.cached > proc[p].changed
    /\ proc[p].baseChanged > proc[p].w0.cached
    /\ chan[RequesterOf(p)].buf # <<>>

\* C16: a lookup goroutine that reparsed sends the caller the bundle of the
\* entry it sent as a Set request, applied or not; one that did not reparse
\* sends the bundle of the entry it read.
C16_ReplyIsTheBuiltBundle ==
  \A p \in Tasks :
    proc[p].pc = "done" =>
      /\ proc[p].reparsed =>
           /\ chan[RequesterOf(p)] =
                [buf |-> <<proc[p].w.template>>, closed |-> TRUE]
           /\ <<proc[p].key, proc[p].w.template.ref>> \in sent
           /\ proc[p].w.template.ref # proc[p].w0.template.ref
      /\ (~proc[p].reparsed /\ ~proc[p].perr /\ proc[p].w0 # NoEntry) =>
           chan[RequesterOf(p)] =
             [buf |-> <<proc[p].w0.template>>, closed |-> TRUE]
\* The reply of a reparse is out while its Set request still waits and the
\* cache still holds the entry the goroutine read.
C16_Witness ==
  \E p \in Tasks :
    /\ proc[p].pc = "done"
    /\ proc[p].reparsed
    /\ proc[p].w.template.ref \in PendingSets(proc[p].key)
    /\ cache[proc[p].key] = proc[p].w0
    /\ chan[RequesterOf(p)].buf # <<>>

\* C17: every lookup goroutine of key k (one or several at once, all the Get
\* calls of k there were) found the one registration of k stale, reparsed
\* and sent its Set, no file having changed since any of them read the
\* cache: once no Set for k waits, the cache holds for k the entry of one of
\* them, with the file list they read, the current content of these files,
\* and beside it only base definitions of other names.
CallsOf(kind, k) ==
  Cardinality({x \in Clients \X (1..MaxOps + 1) :
                 /\ x[2] \in DOMAIN hist[x[1]]
                 /\ hist[x[1]][x[2]][1] = kind
                 /\ hist[x[1]][x[2]][2] = k})
OwnBody(filenames) == UNION {FileBody(f) : f \in FilesOf(filenames)}
Lookups(k) ==
  {c \in Clients : proc[<<c, 1>>].pc # "off" /\ proc[<<c, 1>>].key = k}
AllReparsed(k) ==
  /\ Lookups(k) # {}
  /\ \A c \in Lookups(k) :
       /\ proc[<<c, 1>>].pc = "done"
       /\ proc[<<c, 1>>].reparsed
       /\ proc[<<c, 1>>].edited = edits
  /\ PendingSets(k) = {}
  /\ CallsOf("Register", k) = 1
  /\ CallsOf("Get", k) = Cardinality(Lookups(k))
C18_ReRegistrationNotLost ==
  [][ \A k \in DOMAIN cache :
        cache'[k].filenames # cache[k].filenames
        => cache'[k].template.ref[2] = 0 ]_vars

\* C19: a bundle built for a non-base key (by a register call or a reparse)
\* whose nested lookup of the base read a Base Entry in the cache is a merge
\* with a base bundle: it holds every template the base files define.
C19_BuiltWithBaseIsMerged ==
  \A p \in Requesters :
    (proc[p].pc \in {"send_set", "done"} /\ proc[p].baseFiles # <<>>)
    => DefinedBy(proc[p].baseFiles) \subseteq Names(proc[p].w.template)

\* C20: a register call with an empty file list returns an error and the
\* process does not panic, so no cache entry has an empty file list.
C20_EmptyListReturnsError ==
  /\ ~panicked
  /\ \A c \in Clients :
       (Returned(c) /\ Last(hist[c])[1] = "Register" /\ Last(hist[c])[3] = <<>>)
       => ret[c] \notin {"", "ok"}
  /\ \A k \in DOMAIN cache : cache[k].filenames # <<>>

\* C21: quiescence: when nothing is in flight and no reparse is pending (the
\* files of every entry parse and are not modified later than the entry's
\* cached time, the Base Entry's files not later than its cached time, and
\* every dependent is a merge with the stored base bundle, cached not before
\* the Base Entry), every entry is judged fresh, so a Get replies with the stored bundle and sends no Set; this
\* also when a dependent and the base were cached at the same clock value.
NoReparsePending(k) ==
  /\ ParseOK(cache[k].filenames)
  /\ \A f \in FilesOf(cache[k].filenames) : fs[f].mtime <= cache[k].cached
  /\ (k # baseKey /\ baseKey \in DOMAIN cache) =>
       /\ ParseOK(cache[baseKey].filenames)
       /\ \A f \in FilesOf(cache[baseKey].filenames) :
            fs[f].mtime <= cache[baseKey].cached
       /\ cache[baseKey].cached <= cache[k].cached
       /\ Holds(cache[k].template,
                {x \in cache[baseKey].template.body :
                   x[1] \notin DefinedBy(cache[k].filenames)})
C21_Quiescence ==
  Quiet =>
    \A k \in DOMAIN cache :
      NoReparsePending(k) =>
        ~isStale(k, cache[k], getChangeTime(cache[k].filenames),
                 getBaseChangeTime)

====
